---- MODULE Spec2Model ----
(***************************************************************************)
(* LocalSearchServer (src/src/tools/impl/web_search/LocalSearch.js): one   *)
(* shared browser, one BrowserContext per uid, a polling admission gate on *)
(* the number of open pages, search() and cleanup().                       *)
(*                                                                         *)
(* JavaScript runs one job at a time: a step of the model is what runs     *)
(* between two suspensions on I/O (chromium.launch, browser.newContext,    *)
(* context.newPage, page.goto, page.waitForTimeout, page.content,          *)
(* page.close, context.close, browser.close, the 100 ms poll timer).  An   *)
(* await on an already settled promise (waitForPageSlot once the slot is   *)
(* taken, getOrCreateContext on a registry hit, the returns through the    *)
(* async frames) resumes in the same microtask checkpoint and is part of   *)
(* the step that settled it.                                               *)
(*                                                                         *)
(* Playwright is the environment: launch, newContext, newPage, goto,        *)
(* waitForTimeout and content may reject at any time and can only reject    *)
(* once their browser, context or page is closed; page.close(),            *)
(* context.close() and browser.close() resolve also when the target is      *)
(* already closed.                                                          *)
(*                                                                         *)
(* Every search call is one process p in Calls.  A call launches at most   *)
(* one browser, creates at most one context and opens at most one page, so *)
(* the browser, context and page made by call p are all named p.           *)
(*                                                                         *)
(* Spec and SpecSearch follow the calls through the browser and keep of a  *)
(* response only which call it belongs to.  What a response holds is in    *)
(* SpecParse (the two parse functions on a page) and SpecFacade (search,   *)
(* cleanup and the two accessors for a caller that awaits every call);     *)
(* SpecGate is the admission gate with callers that come back.             *)
(***************************************************************************)
EXTENDS Integers, Sequences, FiniteSets, TLC

NumCalls == 2       \* search calls issued in one run
NumUids == 2        \* distinct uid option values
MaxCeiling == 2     \* configured values of maxConcurrentPages explored
NumGateCallers == 4 \* callers that use the admission gate again and again

Calls == 1..NumCalls
Uids == 1..NumUids
GateCallers == 1..NumGateCallers
NULL == 0
NoError == "none"

VARIABLES
  maxConcurrentPages, \* this.maxConcurrentPages
  browser,            \* this.browser: NULL or the id of a browser object
  contexts,           \* this.contexts: a Map, kept as its entries in insertion order
  activePages,        \* this.activePages
  result,             \* this.result: NULL or the response object of call p
  browserState,       \* browser object b: "none" (never launched), "open", "closed"
  ctxState,           \* context object c: "none", "open", "closed"
  pageState,          \* page object of call p: "none", "open", "closed"
  pc,                 \* where call p is suspended
  uid,                \* requestOptions.uid of call p
  lbrowser,           \* const browser of getOrCreateContext in call p
  lctx,               \* const context of #openUrlInSearchWindow in call p
  fetchError,         \* what #openUrlInSearchWindow of call p threw, or NoError
  searchError,        \* what search() of call p rejected with, or NoError
  pcCleanup,          \* where cleanup() is suspended
  cleanIt,            \* entries the for-of iterator of cleanup() has passed
  cleanObj,           \* the context or browser cleanup() is closing
  acquired,           \* history: times call p ran this.activePages++
  released,           \* history: times call p ran releasePageSlot()
  navCount,           \* history: page.goto calls of call p
  opened,             \* history: pages context.newPage() gave call p
  cleanupQuiet,       \* history: cleanup() is running or has just returned, and no search
                      \* call was in flight since it was called
  cleanupSucc,        \* history: cleanup() returns in succession, nothing in between (capped)
  request,            \* the last search(query, options) that returned to the sequential
                      \* caller, in <<..>>
  threw,              \* the caller's last search call threw
  resultValue,        \* this.result as a value: <<>> for null, else <<[query, results]>>
  okSince,            \* history: a search returned since construction or the last cleanup()
  parser,             \* the parse function last applied: "none", "bing", "baidu"
  html,               \* the document it was given
  results,            \* what it returned
  gpc,                \* gate caller c: "out", "polling" (in waitForPageSlot), "holding"
  waitOrder,          \* history: the polling callers, earliest arrival first
  overtaken           \* history: the polling callers that saw a later arrival admitted

progVars == <<maxConcurrentPages, browser, contexts, activePages, result>>
envVars == <<browserState, ctxState, pageState>>
callVars == <<pc, uid, lbrowser, lctx, fetchError, searchError>>
cleanVars == <<pcCleanup, cleanIt, cleanObj>>
histVars == <<acquired, released, navCount, opened, cleanupQuiet, cleanupSucc>>
facadeVars == <<request, threw, resultValue, okSince>>
parseVars == <<parser, html, results>>
gateVars == <<gpc, waitOrder, overtaken>>
sideVars == <<facadeVars, parseVars, gateVars>>
vars == <<progVars, envVars, callVars, cleanVars, histVars, sideVars>>

Ended(p) == pc[p] \in {"done", "failed"}
InFlight(p) == pc[p] \notin {"idle", "done", "failed"}

----------------------------------------------------------------------------
(* The Map this.contexts: entries [uid, ctx] in insertion order.            *)

MapHas(m, u) == \E i \in DOMAIN m : m[i].uid = u
MapGet(m, u) == IF MapHas(m, u) THEN (CHOOSE e \in {m[i] : i \in DOMAIN m} : e.uid = u).ctx ELSE NULL
MapSet(m, u, c) ==
  IF MapHas(m, u)
    THEN [i \in DOMAIN m |-> IF m[i].uid = u THEN [uid |-> u, ctx |-> c] ELSE m[i]]
    ELSE Append(m, [uid |-> u, ctx |-> c])
MapDeleteAll(m, us) == SelectSeq(m, LAMBDA e : e.uid \notin us)
MapValues(m) == {m[i].ctx : i \in DOMAIN m}
\* A live Map iterator that has passed `it` entries, after the keys us are deleted.
IterAfterDelete(m, it, us) == it - Cardinality({i \in DOMAIN m : i <= it /\ m[i].uid \in us})

----------------------------------------------------------------------------
(* The Playwright objects.  Closing a browser (browser.close() or a crash)  *)
(* closes its contexts and their pages; closing a context closes its pages. *)
(* A context emits 'close' once, when it goes from open to closed; context  *)
(* c was created by call c, for uid[c], on browser lbrowser[c].             *)

OpenContextsOf(b) == {c \in Calls : ctxState[c] = "open" /\ lbrowser[c] = b}
CtxAfterClose(cs) == [c \in Calls |-> IF c \in cs THEN "closed" ELSE ctxState[c]]
PagesAfterClose(cs) ==
  [p \in Calls |-> IF pageState[p] = "open" /\ lctx[p] \in cs THEN "closed" ELSE pageState[p]]
KeysOf(cs) == {uid[c] : c \in cs}

OnContextCloseKeeps(m, cs) == m
\* context.on('close', () => { this.contexts.delete(uid) }), for every context in cs
OnContextClose(m, cs) == MapDeleteAll(m, KeysOf(cs))

OnDisconnectedKeepHandle(br, m) == [browser |-> br, contexts |-> <<>>]
\* this.browser.on('disconnected', () => { this.browser = null; this.contexts.clear() })
OnDisconnected(br, m) == [browser |-> NULL, contexts |-> <<>>]

----------------------------------------------------------------------------
\* the fields after construction, but for maxConcurrentPages; the histories and
\* the callers at their start
InitRest ==
  /\ browser = NULL
  /\ contexts = <<>>
  /\ activePages = 0
  /\ result = NULL
  /\ browserState = [b \in Calls |-> "none"]
  /\ ctxState = [c \in Calls |-> "none"]
  /\ pageState = [p \in Calls |-> "none"]
  /\ pc = [p \in Calls |-> "idle"]
  /\ uid = [p \in Calls |-> NULL]
  /\ lbrowser = [p \in Calls |-> NULL]
  /\ lctx = [p \in Calls |-> NULL]
  /\ fetchError = [p \in Calls |-> NoError]
  /\ searchError = [p \in Calls |-> NoError]
  /\ pcCleanup = "idle"
  /\ cleanIt = 0
  /\ cleanObj = NULL
  /\ acquired = [p \in Calls |-> 0]
  /\ released = [p \in Calls |-> 0]
  /\ navCount = [p \in Calls |-> 0]
  /\ opened = [p \in Calls |-> 0]
  /\ cleanupQuiet = FALSE
  /\ cleanupSucc = 0
  /\ request = <<>>
  /\ threw = FALSE
  /\ resultValue = <<>>
  /\ okSince = FALSE
  /\ parser = "none"
  /\ results = <<>>
  /\ gpc = [c \in GateCallers |-> "out"]
  /\ waitOrder = <<>>
  /\ overtaken = {}

Init ==
  /\ maxConcurrentPages \in 1..MaxCeiling
  /\ html = <<>>
  /\ InitRest

----------------------------------------------------------------------------
(* search() and #openUrlInSearchWindow                                      *)

SlotFreeOffByOne == activePages <= maxConcurrentPages
\* the negation of the loop condition of waitForPageSlot
SlotFree == activePages < maxConcurrentPages

RethrownWrapped(error) == "SearchError"
\* catch (error) { console.error(...); throw error }
Rethrown(error) == error

FetchSettlesStoresAlways(p, e, slotReleased) ==
  /\ pc' = [pc EXCEPT ![p] = IF e = NoError THEN "done" ELSE "failed"]
  /\ fetchError' = [fetchError EXCEPT ![p] = e]
  /\ searchError' = [searchError EXCEPT ![p] = IF e = NoError THEN NoError ELSE Rethrown(e)]
  /\ result' = p
  /\ activePages' = IF slotReleased THEN activePages - 1 ELSE activePages
  /\ released' = [released EXCEPT ![p] = IF slotReleased THEN @ + 1 ELSE @]

\* #openUrlInSearchWindow of call p settles with e (NoError: it returns the html),
\* having run releasePageSlot() or not; search() then stores its response or rethrows.
FetchSettles(p, e, slotReleased) ==
  /\ pc' = [pc EXCEPT ![p] = IF e = NoError THEN "done" ELSE "failed"]
  /\ fetchError' = [fetchError EXCEPT ![p] = e]
  /\ searchError' = [searchError EXCEPT ![p] = IF e = NoError THEN NoError ELSE Rethrown(e)]
  /\ result' = IF e = NoError THEN p ELSE result
  /\ activePages' = IF slotReleased THEN activePages - 1 ELSE activePages
  /\ released' = [released EXCEPT ![p] = IF slotReleased THEN @ + 1 ELSE @]

FinallyNoClose(p, e) == FetchSettles(p, e, TRUE)
\* the try block of call p exits with e:
\* finally { if (page) await page.close(); this.releasePageSlot() }
Finally(p, e) ==
  IF pageState[p] # "none"
    THEN /\ pc' = [pc EXCEPT ![p] = "closingPage"]
         /\ fetchError' = [fetchError EXCEPT ![p] = e]
         /\ UNCHANGED <<searchError, result, activePages, released>>
    ELSE FetchSettles(p, e, TRUE)

\* this.activePages++ and then getOrCreateContext(u) up to its first suspension
Enter(p, u) ==
  /\ activePages' = activePages + 1
  /\ acquired' = [acquired EXCEPT ![p] = @ + 1]
  /\ LET c == MapGet(contexts, u) IN
       IF c # NULL
         THEN /\ lctx' = [lctx EXCEPT ![p] = c]
              /\ pc' = [pc EXCEPT ![p] = "openingPage"]
              /\ UNCHANGED lbrowser
         ELSE IF browser # NULL
           THEN /\ lbrowser' = [lbrowser EXCEPT ![p] = browser]
                /\ pc' = [pc EXCEPT ![p] = "creatingCtx"]
                /\ UNCHANGED lctx
           ELSE /\ pc' = [pc EXCEPT ![p] = "launching"]
                /\ UNCHANGED <<lbrowser, lctx>>

\* search(query, {uid: u}) is called; calls are numbered in the order they are made
\* and uids in the order they are first used
Start(p, u) ==
  /\ pc[p] = "idle"
  /\ \A q \in Calls : q < p => pc[q] # "idle"
  /\ \A v \in Uids : v < u => \E q \in Calls : uid[q] = v
  /\ uid' = [uid EXCEPT ![p] = u]
  /\ IF SlotFree
       THEN Enter(p, u)
       ELSE /\ pc' = [pc EXCEPT ![p] = "waitSlot"]
            /\ UNCHANGED <<activePages, acquired, lbrowser, lctx>>
  /\ cleanupQuiet' = FALSE
  /\ cleanupSucc' = 0
  /\ UNCHANGED <<sideVars, maxConcurrentPages, browser, contexts, result, envVars, fetchError,
                 searchError, cleanVars, released, navCount, opened>>

\* the 100 ms timer of waitForPageSlot fires and the loop condition is false
Poll(p) ==
  /\ pc[p] = "waitSlot"
  /\ SlotFree
  /\ Enter(p, uid[p])
  /\ cleanupSucc' = 0
  /\ cleanupQuiet' = FALSE
  /\ UNCHANGED <<sideVars, maxConcurrentPages, browser, contexts, result, envVars, uid, fetchError,
                 searchError, cleanVars, released, navCount, opened>>

\* chromium.launch() resolves: this.browser = <new browser>, then browser.newContext()
LaunchOk(p) ==
  /\ pc[p] = "launching"
  /\ browserState' = [browserState EXCEPT ![p] = "open"]
  /\ browser' = p
  /\ lbrowser' = [lbrowser EXCEPT ![p] = p]
  /\ pc' = [pc EXCEPT ![p] = "creatingCtx"]
  /\ cleanupSucc' = 0
  /\ cleanupQuiet' = FALSE
  /\ UNCHANGED <<sideVars, maxConcurrentPages, contexts, activePages, result, ctxState, pageState, uid,
                 lctx, fetchError, searchError, cleanVars, acquired, released, navCount,
                 opened>>

\* chromium.launch() rejects: the error leaves getOrCreateContext, which is called
\* before the try block of #openUrlInSearchWindow
LaunchFail(p) ==
  /\ pc[p] = "launching"
  /\ FetchSettles(p, "LaunchError", FALSE)
  /\ cleanupSucc' = 0
  /\ cleanupQuiet' = FALSE
  /\ UNCHANGED <<sideVars, maxConcurrentPages, browser, contexts, envVars, uid, lbrowser, lctx,
                 cleanVars, acquired, navCount, opened>>

\* browser.newContext() resolves: this.contexts.set(uid, context), then context.newPage()
NewContextOk(p) ==
  /\ pc[p] = "creatingCtx"
  /\ browserState[lbrowser[p]] = "open"
  /\ ctxState' = [ctxState EXCEPT ![p] = "open"]
  /\ contexts' = MapSet(contexts, uid[p], p)
  /\ lctx' = [lctx EXCEPT ![p] = p]
  /\ pc' = [pc EXCEPT ![p] = "openingPage"]
  /\ cleanupSucc' = 0
  /\ cleanupQuiet' = FALSE
  /\ UNCHANGED <<sideVars, maxConcurrentPages, browser, activePages, result, browserState, pageState,
                 uid, lbrowser, fetchError, searchError, cleanVars, acquired, released,
                 navCount, opened>>

\* browser.newContext() rejects, again before the try block
NewContextFail(p) ==
  /\ pc[p] = "creatingCtx"
  /\ FetchSettles(p, "ContextError", FALSE)
  /\ cleanupSucc' = 0
  /\ cleanupQuiet' = FALSE
  /\ UNCHANGED <<sideVars, maxConcurrentPages, browser, contexts, envVars, uid, lbrowser, lctx,
                 cleanVars, acquired, navCount, opened>>

\* context.newPage() resolves, then page.goto(url)
NewPageOk(p) ==
  /\ pc[p] = "openingPage"
  /\ ctxState[lctx[p]] = "open"
  /\ pageState' = [pageState EXCEPT ![p] = "open"]
  /\ opened' = [opened EXCEPT ![p] = @ + 1]
  /\ navCount' = [navCount EXCEPT ![p] = @ + 1]
  /\ pc' = [pc EXCEPT ![p] = "navigating"]
  /\ cleanupSucc' = 0
  /\ cleanupQuiet' = FALSE
  /\ UNCHANGED <<sideVars, progVars, browserState, ctxState, uid, lbrowser, lctx, fetchError,
                 searchError, cleanVars, acquired, released>>

\* context.newPage() rejects inside the try block: page is undefined in finally
NewPageFail(p) ==
  /\ pc[p] = "openingPage"
  /\ Finally(p, "PageError")
  /\ cleanupSucc' = 0
  /\ cleanupQuiet' = FALSE
  /\ UNCHANGED <<sideVars, maxConcurrentPages, browser, contexts, envVars, uid, lbrowser, lctx,
                 cleanVars, acquired, navCount, opened>>

\* page.goto() resolves, then page.waitForTimeout(1000)
GotoOk(p) ==
  /\ pc[p] = "navigating"
  /\ pageState[p] = "open"
  /\ pc' = [pc EXCEPT ![p] = "settling"]
  /\ cleanupSucc' = 0
  /\ cleanupQuiet' = FALSE
  /\ UNCHANGED <<sideVars, progVars, envVars, uid, lbrowser, lctx, fetchError, searchError, cleanVars,
                 acquired, released, navCount, opened>>

\* page.waitForTimeout() resolves, then page.content()
SettleOk(p) ==
  /\ pc[p] = "settling"
  /\ pageState[p] = "open"
  /\ pc' = [pc EXCEPT ![p] = "capturing"]
  /\ cleanupSucc' = 0
  /\ cleanupQuiet' = FALSE
  /\ UNCHANGED <<sideVars, progVars, envVars, uid, lbrowser, lctx, fetchError, searchError, cleanVars,
                 acquired, released, navCount, opened>>

\* page.goto(), page.waitForTimeout() or page.content() rejects
TryFail(p) ==
  /\ pc[p] \in {"navigating", "settling", "capturing"}
  /\ Finally(p, CASE pc[p] = "navigating" -> "NavigationError"
                  [] pc[p] = "settling" -> "TimeoutError"
                  [] OTHER -> "ContentError")
  /\ cleanupSucc' = 0
  /\ cleanupQuiet' = FALSE
  /\ UNCHANGED <<sideVars, maxConcurrentPages, browser, contexts, envVars, uid, lbrowser, lctx,
                 cleanVars, acquired, navCount, opened>>

\* page.content() resolves: return html
CaptureOk(p) ==
  /\ pc[p] = "capturing"
  /\ pageState[p] = "open"
  /\ Finally(p, NoError)
  /\ cleanupSucc' = 0
  /\ cleanupQuiet' = FALSE
  /\ UNCHANGED <<sideVars, maxConcurrentPages, browser, contexts, envVars, uid, lbrowser, lctx,
                 cleanVars, acquired, navCount, opened>>

\* page.close() resolves, then this.releasePageSlot() and the return or rethrow
PageClosed(p) ==
  /\ pc[p] = "closingPage"
  /\ pageState' = [pageState EXCEPT ![p] = "closed"]
  /\ FetchSettles(p, fetchError[p], TRUE)
  /\ cleanupSucc' = 0
  /\ cleanupQuiet' = FALSE
  /\ UNCHANGED <<sideVars, maxConcurrentPages, browser, contexts, browserState, ctxState, uid, lbrowser,
                 lctx, cleanVars, acquired, navCount, opened>>

----------------------------------------------------------------------------
(* Events of the Playwright objects that no call of the engine causes.      *)

\* browser b crashes or is closed from outside: 'close' on its contexts, then
\* 'disconnected' on b
Disconnect(b) ==
  /\ browserState[b] = "open"
  /\ LET cs == OpenContextsOf(b)
         h == OnDisconnected(browser, OnContextClose(contexts, cs))
     IN /\ browserState' = [browserState EXCEPT ![b] = "closed"]
        /\ ctxState' = CtxAfterClose(cs)
        /\ pageState' = PagesAfterClose(cs)
        /\ browser' = h.browser
        /\ contexts' = h.contexts
        /\ cleanIt' = IF h.contexts = <<>> THEN 0 ELSE IterAfterDelete(contexts, cleanIt, KeysOf(cs))
  /\ cleanupSucc' = 0
  /\ cleanupQuiet' = (cleanupQuiet /\ pcCleanup # "idle")
  /\ UNCHANGED <<sideVars, maxConcurrentPages, activePages, result, callVars, pcCleanup, cleanObj,
                 acquired, released, navCount, opened>>

\* context c is closed from outside and emits 'close'
ContextClose(c) ==
  /\ ctxState[c] = "open"
  /\ ctxState' = CtxAfterClose({c})
  /\ pageState' = PagesAfterClose({c})
  /\ contexts' = OnContextClose(contexts, {c})
  /\ cleanIt' = IterAfterDelete(contexts, cleanIt, KeysOf({c}))
  /\ cleanupSucc' = 0
  /\ cleanupQuiet' = (cleanupQuiet /\ pcCleanup # "idle")
  /\ UNCHANGED <<sideVars, maxConcurrentPages, browser, activePages, result, browserState, callVars,
                 pcCleanup, cleanObj, acquired, released, navCount, opened>>

----------------------------------------------------------------------------
(* cleanup()                                                                *)

MaxSucc == 2        \* cap of the history counter cleanupSucc

CleanupResetKeepResult == [contexts |-> <<>>, activePages |-> 0, result |-> result]
\* this.contexts.clear(); this.activePages = 0; this.result = null
CleanupReset == [contexts |-> <<>>, activePages |-> 0, result |-> NULL]

\* cleanup() returns
CleanupReturns ==
  /\ contexts' = CleanupReset.contexts
  /\ activePages' = CleanupReset.activePages
  /\ result' = CleanupReset.result
  /\ pcCleanup' = "idle"
  /\ cleanIt' = 0
  /\ cleanObj' = NULL
  /\ cleanupSucc' = IF cleanupSucc < MaxSucc THEN cleanupSucc + 1 ELSE cleanupSucc

\* cleanup() runs on, with this.browser = br, this.contexts = m and the iterator
\* past `it` entries, up to its next suspension or its return
CleanupContinue(br, m, it) ==
  IF it < Len(m)
    THEN \* for (const context of this.contexts.values()) await context.close()
         /\ pcCleanup' = "closingCtx"
         /\ cleanObj' = m[it + 1].ctx
         /\ cleanIt' = it + 1
         /\ browser' = br
         /\ contexts' = m
         /\ cleanupSucc' = 0
         /\ UNCHANGED <<activePages, result>>
    ELSE IF br # NULL
      THEN \* if (this.browser) await this.browser.close()
           /\ pcCleanup' = "closingBrowser"
           /\ cleanObj' = br
           /\ cleanIt' = 0
           /\ browser' = br
           /\ contexts' = m
           /\ cleanupSucc' = 0
           /\ UNCHANGED <<activePages, result>>
      ELSE /\ browser' = br
           /\ CleanupReturns

CleanupStart ==
  /\ pcCleanup = "idle"
  /\ CleanupContinue(browser, contexts, 0)
  /\ cleanupQuiet' = \A p \in Calls : ~InFlight(p)
  /\ UNCHANGED <<sideVars, maxConcurrentPages, envVars, callVars, acquired, released, navCount, opened>>

\* context.close() resolves: the context is closed and has emitted 'close'
CleanupContextClosed ==
  /\ pcCleanup = "closingCtx"
  /\ LET cs == IF ctxState[cleanObj] = "open" THEN {cleanObj} ELSE {}
     IN /\ ctxState' = CtxAfterClose(cs)
        /\ pageState' = PagesAfterClose(cs)
        /\ CleanupContinue(browser, OnContextClose(contexts, cs),
                           IterAfterDelete(contexts, cleanIt, KeysOf(cs)))
  /\ UNCHANGED <<sideVars, maxConcurrentPages, browserState, callVars, acquired, released, navCount,
                 opened, cleanupQuiet>>

\* this.browser.close() resolves: the browser is closed and has emitted
\* 'disconnected'; then this.browser = null and the resets
CleanupBrowserClosed ==
  /\ pcCleanup = "closingBrowser"
  /\ LET cs == IF browserState[cleanObj] = "open" THEN OpenContextsOf(cleanObj) ELSE {}
     IN /\ browserState' = [browserState EXCEPT ![cleanObj] = "closed"]
        /\ ctxState' = CtxAfterClose(cs)
        /\ pageState' = PagesAfterClose(cs)
  /\ browser' = NULL
  /\ CleanupReturns
  /\ UNCHANGED <<sideVars, maxConcurrentPages, callVars, acquired, released, navCount, opened,
                 cleanupQuiet>>

----------------------------------------------------------------------------
SearchStep ==
  \E p \in Calls :
    \/ \E u \in Uids : Start(p, u)
    \/ Poll(p)
    \/ LaunchOk(p)
    \/ LaunchFail(p)
    \/ NewContextOk(p)
    \/ NewContextFail(p)
    \/ NewPageOk(p)
    \/ NewPageFail(p)
    \/ GotoOk(p)
    \/ SettleOk(p)
    \/ CaptureOk(p)
    \/ TryFail(p)
    \/ PageClosed(p)

EnvStep ==
  \/ \E b \in Calls : Disconnect(b)
  \/ \E c \in Calls : ContextClose(c)

CleanupStep ==
  \/ CleanupStart
  \/ CleanupContextClosed
  \/ CleanupBrowserClosed

Next == SearchStep \/ EnvStep \/ CleanupStep
Spec == Init /\ [][Next]_vars

\* search calls and the events of the browser only: cleanup() is never called
NextSearch == SearchStep \/ EnvStep
SpecSearch == Init /\ [][NextSearch]_vars

----------------------------------------------------------------------------
(* Text.  A string is the sequence of its characters.                       *)

IsSpace(ch) == ch \in {" ", "\n"}

RECURSIVE TrimStart(_)
TrimStart(s) == IF s # <<>> /\ IsSpace(Head(s)) THEN TrimStart(Tail(s)) ELSE s
RECURSIVE TrimEnd(_)
TrimEnd(s) ==
  IF s # <<>> /\ IsSpace(s[Len(s)]) THEN TrimEnd(SubSeq(s, 1, Len(s) - 1)) ELSE s
\* String.prototype.trim
Trim(s) == TrimEnd(TrimStart(s))

\* s.replace(/\s+/g, ' ')
RECURSIVE CollapseSpaces(_)
CollapseSpaces(s) ==
  IF s = <<>> THEN <<>>
  ELSE IF IsSpace(Head(s)) THEN <<" ">> \o CollapseSpaces(TrimStart(s))
  ELSE <<Head(s)>> \o CollapseSpaces(Tail(s))

\* Array.prototype.join
RECURSIVE Join(_, _)
Join(a, sep) ==
  IF a = <<>> THEN <<>>
  ELSE IF Len(a) = 1 THEN a[1]
  ELSE a[1] \o sep \o Join(Tail(a), sep)

----------------------------------------------------------------------------
(* A search page, as far as the selectors of the parse functions see it: the *)
(* sequence of its top-level blocks in document order.  A block is           *)
(*   kind   "b_algo" (li.b_algo), "c-container" (div.result.c-container)     *)
(*          or "other";                                                      *)
(*   anchor the text runs of the title anchor (h2 a, h3.t a), each inside    *)
(*          an <em> or not; <<>> when there is no anchor;                    *)
(*   href   the anchor's href; <<>> when it is missing or empty;             *)
(*   a, b   the nodes p.b_lineclamp3 and .b_caption p: present or not, the   *)
(*          text of their span.news_dt and their remaining text;             *)
(*   items  the spans .b_dList .lisn_olitem span: title attribute (<<>> when *)
(*          missing or empty) and text;                                      *)
(*   span   the text of span.content-right_2s-H4.                            *)

NoNode == [present |-> FALSE, date |-> <<>>, text |-> <<>>]
Node(date, text) == [present |-> TRUE, date |-> date, text |-> text]
Run(em, text) == [em |-> em, text |-> text]

\* $(node).text(): the text of the runs, in document order
RECURSIVE RunsText(_)
RunsText(runs) == IF runs = <<>> THEN <<>> ELSE Head(runs).text \o RunsText(Tail(runs))

\* $(node).text() of a content node: its timestamp span comes first
NodeText(n) == n.date \o n.text
\* contentClone.find('span.news_dt').remove()
StripDate(n) == [n EXCEPT !.date = <<>>]
\* contentElement.clone(), the timestamp removed, and then
\* contentClone.text().trim().replace(/\s+/g, ' ')
NodeContent(n) == CollapseSpaces(Trim(NodeText(StripDate(n))))

ItemTextVisibleFirst(item) == IF Trim(item.text) # <<>> THEN Trim(item.text) ELSE item.title
\* $item.attr('title') || $item.text().trim()
ItemText(item) == IF item.title # <<>> THEN item.title ELSE Trim(item.text)

\* listItems.each(...): if (text) contents.push(text)
RECURSIVE ItemContents(_)
ItemContents(items) ==
  IF items = <<>> THEN <<>>
  ELSE (IF ItemText(Head(items)) # <<>> THEN <<ItemText(Head(items))>> ELSE <<>>)
       \o ItemContents(Tail(items))

\* the content of one li.b_algo: the if / else if / else if on contentElement.length
BingContent(k) ==
  IF k.a.present THEN NodeContent(k.a)
  ELSE IF k.b.present THEN NodeContent(k.b)
  ELSE IF k.items # <<>> THEN CollapseSpaces(Trim(Join(ItemContents(k.items), <<" ">>)))
  ELSE <<>>

BingCandidateNeedsContent(k) ==
  LET title == Trim(RunsText(k.anchor))
      url == k.href
      content == BingContent(k)
  IN IF title # <<>> /\ url # <<>> /\ content # <<>>
       THEN <<[url |-> url, title |-> title, content |-> content]>>
       ELSE <<>>

\* the body of $('li.b_algo').each: what it pushes onto results
BingCandidate(k) ==
  LET title == Trim(RunsText(k.anchor))
      url == k.href
      content == BingContent(k)
  IN IF title # <<>> /\ url # <<>>
       THEN <<[url |-> url, title |-> title, content |-> content]>>
       ELSE <<>>

RECURSIVE parseBingSearchResults(_)
parseBingSearchResults(doc) ==
  IF doc = <<>> THEN <<>>
  ELSE (IF Head(doc).kind = "b_algo" THEN BingCandidate(Head(doc)) ELSE <<>>)
       \o parseBingSearchResults(Tail(doc))

\* titleElement.clone().find('em').remove().end().text(): the runs outside <em>
NonEmRuns(runs) == SelectSeq(runs, LAMBDA r : ~r.em)

\* the body of $('div.result.c-container').each
BaiduCandidate(k) ==
  LET title == Trim(RunsText(NonEmRuns(k.anchor)))
      url == k.href
      content == Trim(k.span)
  IN IF title # <<>> /\ url # <<>> /\ content # <<>>
       THEN <<[url |-> url, title |-> title, content |-> content]>>
       ELSE <<>>

RECURSIVE parseBaiduSearchResults(_)
parseBaiduSearchResults(doc) ==
  IF doc = <<>> THEN <<>>
  ELSE (IF Head(doc).kind = "c-container" THEN BaiduCandidate(Head(doc)) ELSE <<>>)
       \o parseBaiduSearchResults(Tail(doc))

----------------------------------------------------------------------------
(* The pages the parse functions are applied to.                            *)

MaxBlocks == 2      \* blocks of a page

Anchors ==
  { <<>>,
    <<Run(FALSE, <<"T">>)>>,
    <<Run(TRUE, <<"E">>), Run(FALSE, <<" ", "T", "\n">>)>>,
    <<Run(TRUE, <<"E">>)>> }
Hrefs == { <<>>, <<"u">> }
NodesA ==
  { NoNode,
    Node(<<"d">>, <<>>),
    Node(<<>>, <<" ">>),
    Node(<<"d">>, <<" ", "x", "\n", " ", "y">>) }
NodesB == { NoNode, Node(<<>>, <<>>), Node(<<"d">>, <<"c", " ">>) }
Item(title, text) == [title |-> title, text |-> text]
ItemLists ==
  { <<>>,
    <<Item(<<"t">>, <<"v">>)>>,
    <<Item(<<>>, <<" ", "v">>)>>,
    <<Item(<<>>, <<" ">>)>>,
    <<Item(<<"t", " ", " ", "s">>, <<"v">>), Item(<<>>, <<"w">>)>>,
    <<Item(<<>>, <<>>), Item(<<"t">>, <<>>), Item(<<>>, <<"w", " ">>)>> }
Spans == { <<>>, <<" ", "s", " ", " ", "r">> }

Block(kind, anchor, href, a, b, items, span) ==
  [kind |-> kind, anchor |-> anchor, href |-> href, a |-> a, b |-> b,
   items |-> items, span |-> span]

\* every li.b_algo over the values above
BingBlocks ==
  { Block("b_algo", an, hr, a, b, it, <<>>) :
      an \in Anchors, hr \in Hrefs, a \in NodesA, b \in NodesB, it \in ItemLists }
BaiduBlocks ==
  { Block("c-container", an, hr, NoNode, NoNode, <<>>, sp) :
      an \in Anchors, hr \in Hrefs, sp \in Spans }
\* the blocks that pages of several blocks are made of
CoreBlocks ==
  { k \in BingBlocks : /\ k.anchor \in {<<>>, <<Run(FALSE, <<"T">>)>>}
                       /\ k.a \in {NoNode, Node(<<"d">>, <<" ", "x", "\n", " ", "y">>)}
                       /\ k.b = NoNode /\ k.items = <<>>
                       /\ (k.anchor = <<>> \/ k.href = <<>> => k.a # NoNode)
                       /\ (k.anchor # <<>> \/ k.href # <<>>) }
  \cup { k \in BaiduBlocks : /\ Len(k.anchor) # 1
                             /\ (k.anchor # <<>> \/ k.href # <<>>)
                             /\ (k.anchor # <<>> \/ k.span # <<>>)
                             /\ (k.href # <<>> \/ k.span # <<>>) }
  \cup { Block("other", <<>>, <<>>, NoNode, NoNode, <<>>, <<>>) }

SeqsUpTo(S, n) == UNION { [1..m -> S] : m \in 0..n }
Pages == SeqsUpTo(CoreBlocks, MaxBlocks)
AllPages == Pages \cup { <<k>> : k \in BingBlocks \cup BaiduBlocks }

\* a page is at hand; no parse function has been applied yet
InitParse ==
  /\ maxConcurrentPages = MaxCeiling
  /\ html \in AllPages
  /\ InitRest

\* parseBingSearchResults(html) is called
ParseBing ==
  /\ parser' = "bing"
  /\ results' = parseBingSearchResults(html)
  /\ UNCHANGED <<progVars, envVars, callVars, cleanVars, histVars, facadeVars, gateVars, html>>

\* parseBaiduSearchResults(html) is called
ParseBaidu ==
  /\ parser' = "baidu"
  /\ results' = parseBaiduSearchResults(html)
  /\ UNCHANGED <<progVars, envVars, callVars, cleanVars, histVars, facadeVars, gateVars, html>>

NextParse == ParseBing \/ ParseBaidu
SpecParse == InitParse /\ [][NextParse]_vars

----------------------------------------------------------------------------
(* search(), cleanup(), formatJSON() and formatContent() as one caller sees *)
(* them when it awaits each call before it makes the next: a search either  *)
(* returns, #openUrlInSearchWindow having returned the page html, or        *)
(* throws, #openUrlInSearchWindow having thrown.                            *)

MaxResultsArg == 3  \* largest max_results option passed
DefaultMaxResults == 5

Queries == { <<"a", " ", "b">> }
Engines ==
  { <<"b", "i", "n", "g">>, <<"b", "a", "i", "d", "u">>, <<"B", "a", "i", "D", "u">>,
    <<"g", "o", "o", "g", "l", "e">> }

Min(a, b) == IF a <= b THEN a ELSE b
Max(a, b) == IF a >= b THEN a ELSE b

\* String.prototype.toLowerCase
UpperToLower == ("B" :> "b") @@ ("D" :> "d") @@ ("G" :> "g")
toLowerCase(s) ==
  [i \in DOMAIN s |-> IF s[i] \in DOMAIN UpperToLower THEN UpperToLower[s[i]] ELSE s[i]]

\* encodeURIComponent: letters stay, a space becomes %20
RECURSIVE encodeURIComponent(_)
encodeURIComponent(s) ==
  IF s = <<>> THEN <<>>
  ELSE (IF Head(s) = " " THEN <<"%", "2", "0">> ELSE <<Head(s)>>)
       \o encodeURIComponent(Tail(s))

SliceFromOne(arr, end) ==
  SubSeq(arr, 2, IF end < 0 THEN Max(Len(arr) + end, 0) ELSE Min(end, Len(arr)))
\* arr.slice(0, end)
Slice(arr, end) ==
  SubSeq(arr, 1, IF end < 0 THEN Max(Len(arr) + end, 0) ELSE Min(end, Len(arr)))

\* the options objects passed: each key is given or left out
Options ==
  { [k \in ks |-> IF k = "engine" THEN e ELSE n] :
      ks \in SUBSET {"engine", "max_results"}, e \in Engines, n \in 0..MaxResultsArg }

defaultOptions ==
  [uid |-> <<"default">>, max_results |-> DefaultMaxResults, engine |-> <<"b", "i", "n", "g">>]

\* { ...defaultOptions, ...options, query }
requestOptions(query, options) ==
  [k \in DOMAIN defaultOptions \cup DOMAIN options \cup {"query"} |->
     IF k = "query" THEN query
     ELSE IF k \in DOMAIN options THEN options[k]
     ELSE defaultOptions[k]]

IsBaiduUnlessBing(ro) == toLowerCase(ro.engine) # <<"b", "i", "n", "g">>
\* requestOptions.engine.toLowerCase() === 'baidu'
IsBaidu(ro) == toLowerCase(ro.engine) = <<"b", "a", "i", "d", "u">>

\* the url search() opens
SearchUrl(ro) ==
  IF IsBaidu(ro)
    THEN <<"https://www.baidu.com/s?wd=">> \o encodeURIComponent(ro.query)
    ELSE <<"https://www.bing.com/search?q=">> \o encodeURIComponent(ro.query)

\* the parse function search() applies to the page
Parsed(ro, page) ==
  IF IsBaidu(ro)
    THEN [parser |-> "baidu", results |-> parseBaiduSearchResults(page)]
    ELSE [parser |-> "bing", results |-> parseBingSearchResults(page)]

\* the object search() assigns to this.result and returns
Response(ro, page) ==
  [query |-> ro.query, results |-> Slice(Parsed(ro, page).results, ro.max_results)]

Call(query, options) ==
  [query |-> query, options |-> options, url |-> SearchUrl(requestOptions(query, options))]

\* the page is at hand from the start: the one the engine serves
InitFacade ==
  /\ maxConcurrentPages = MaxCeiling
  /\ html \in Pages
  /\ InitRest

\* await search(q, o) returns
SearchReturns(q, o) ==
  LET ro == requestOptions(q, o) IN
  /\ request' = <<Call(q, o)>>
  /\ threw' = FALSE
  /\ parser' = Parsed(ro, html).parser
  /\ results' = Parsed(ro, html).results
  /\ resultValue' = <<Response(ro, html)>>
  /\ okSince' = TRUE
  /\ UNCHANGED <<progVars, envVars, callVars, cleanVars, histVars, gateVars, html>>

\* await search(..) throws what #openUrlInSearchWindow threw, whatever its arguments
SearchThrows ==
  /\ threw' = TRUE
  /\ UNCHANGED <<progVars, envVars, callVars, cleanVars, histVars, gateVars, parseVars,
                 request, resultValue, okSince>>

\* await cleanup() returns: this.result = null
CleanupDone ==
  /\ resultValue' = <<>>
  /\ okSince' = FALSE
  /\ UNCHANGED <<progVars, envVars, callVars, cleanVars, histVars, gateVars, parseVars,
                 request, threw>>

formatContentNoGuard(r) ==
  <<"Query: ">> \o (IF r = <<>> THEN <<"undefined">> ELSE r[1].query) \o <<"\n">>
\* formatContent() when this.result is r
formatContent(r) ==
  IF r = <<>>
    THEN <<>>
    ELSE LET list == [i \in DOMAIN r[1].results |->
                        <<"URL: ">> \o r[1].results[i].url \o <<"\n">>
                        \o <<"Title: ">> \o r[1].results[i].title \o <<"\n">>
                        \o <<"content: ">> \o r[1].results[i].content \o <<"\n">>]
         IN <<"Query: ">> \o r[1].query \o <<"\n">> \o Join(list, <<"======\n======">>)

\* formatJSON() when this.result is r
formatJSON(r) == IF r = <<>> THEN <<>> ELSE r[1].results

NextFacade ==
  \/ \E q \in Queries, o \in Options : SearchReturns(q, o)
  \/ SearchThrows
  \/ CleanupDone
SpecFacade == InitFacade /\ [][NextFacade]_vars

----------------------------------------------------------------------------
(* The admission gate alone: callers that call waitForPageSlot(), hold the  *)
(* slot for a while and call releasePageSlot(), again and again.            *)

Without(q, c) == SelectSeq(q, LAMBDA d : d # c)
Range(q) == {q[i] : i \in DOMAIN q}
\* the callers that arrived before c
Before(q, c) == {q[i] : i \in {j \in DOMAIN q : \E k \in DOMAIN q : j < k /\ q[k] = c}}

\* caller c calls waitForPageSlot(): it takes a slot at once if the loop condition
\* is false, and else sleeps for its first 100 ms
GateArrive(c) ==
  /\ gpc[c] = "out"
  /\ IF SlotFree
       THEN /\ activePages' = activePages + 1
            /\ gpc' = [gpc EXCEPT ![c] = "holding"]
            /\ overtaken' = overtaken \cup Range(waitOrder)
            /\ UNCHANGED waitOrder
       ELSE /\ gpc' = [gpc EXCEPT ![c] = "polling"]
            /\ waitOrder' = Append(waitOrder, c)
            /\ UNCHANGED <<activePages, overtaken>>
  /\ UNCHANGED <<maxConcurrentPages, browser, contexts, result, envVars, callVars, cleanVars,
                 histVars, facadeVars, parseVars>>

GatePollFifo(c) ==
  /\ gpc[c] = "polling"
  /\ SlotFree
  /\ Head(waitOrder) = c
  /\ activePages' = activePages + 1
  /\ gpc' = [gpc EXCEPT ![c] = "holding"]
  /\ waitOrder' = Without(waitOrder, c)
  /\ overtaken' = (overtaken \cup Before(waitOrder, c)) \ {c}
  /\ UNCHANGED <<maxConcurrentPages, browser, contexts, result, envVars, callVars, cleanVars,
                 histVars, facadeVars, parseVars>>
\* the 100 ms timer of caller c fires and the loop condition is false:
\* this.activePages++
GatePoll(c) ==
  /\ gpc[c] = "polling"
  /\ SlotFree
  /\ activePages' = activePages + 1
  /\ gpc' = [gpc EXCEPT ![c] = "holding"]
  /\ waitOrder' = Without(waitOrder, c)
  /\ overtaken' = (overtaken \cup Before(waitOrder, c)) \ {c}
  /\ UNCHANGED <<maxConcurrentPages, browser, contexts, result, envVars, callVars, cleanVars,
                 histVars, facadeVars, parseVars>>

\* caller c calls releasePageSlot()
GateRelease(c) ==
  /\ gpc[c] = "holding"
  /\ activePages' = activePages - 1
  /\ gpc' = [gpc EXCEPT ![c] = "out"]
  /\ UNCHANGED <<maxConcurrentPages, browser, contexts, result, envVars, callVars, cleanVars,
                 histVars, facadeVars, parseVars, waitOrder, overtaken>>

NextGate ==
  \E c \in GateCallers :
    \/ GateArrive(c)
    \/ GatePoll(c)
    \/ GateRelease(c)
SpecGate == Init /\ [][NextGate]_vars

\* every timer that is due fires, and every holder releases its slot
FairGate ==
  /\ SpecGate
  /\ \A c \in GateCallers : WF_vars(GatePoll(c)) /\ WF_vars(GateRelease(c))

----------------------------------------------------------------------------
(* Properties                                                               *)

OpenPages == {p \in Calls : pageState[p] = "open"}
Waiting == {p \in Calls : pc[p] = "waitSlot"}

\* C1: while only search calls run, the number of pages open at the same time
\* never exceeds maxConcurrentPages (with a ceiling of 1: never two open pages).
C1_PagesWithinCeiling == Cardinality(OpenPages) <= maxConcurrentPages

\* a call is held at the gate while as many pages as the ceiling allows are open
C1_Witness == Waiting # {} /\ Cardinality(OpenPages) = maxConcurrentPages

\* C2: a search call that has ended, with a response or with an error from any
\* step, has released the slot it acquired: as many releasePageSlot() as
\* activePages++.
C2_SlotNetZero == \A p \in Calls : Ended(p) => released[p] = acquired[p]

\* C3: once the fetch step of a search call has returned or thrown, the page
\* that call opened is not open any more.
C3_NoPageLeftOpen == \A p \in Calls : Ended(p) => pageState[p] # "open"

\* a call failed after its page had been opened, and neither its context nor
\* its browser was closed: the finally block closed the page
C3_Witness ==
  \E p \in Calls : /\ pc[p] = "failed"
                   /\ opened[p] = 1
                   /\ pageState[p] = "closed"
                   /\ ctxState[lctx[p]] = "open"
                   /\ browserState[lbrowser[lctx[p]]] = "open"

\* C4: at most one live session exists per uid, so that two calls with the same
\* uid whose sessions are both still open use the same session; calls with
\* different uids use different sessions.
C4_OneSessionPerUid ==
  /\ \A c, d \in Calls : c # d /\ ctxState[c] = "open" /\ ctxState[d] = "open" => uid[c] # uid[d]
  /\ \A p, q \in Calls : lctx[p] # NULL /\ lctx[q] # NULL /\ uid[p] # uid[q] => lctx[p] # lctx[q]

\* C5: every launched browser that is not closed is the one held in this.browser
\* (so there is at most one).
C5_SingleBrowser == \A b \in Calls : browserState[b] = "open" => browser = b

\* C6: launch failures do not keep later calls from launching: a call is held
\* at the admission gate only while some other call is in flight past the gate.
C6_LaunchRetried ==
  \A p \in Waiting : \E q \in Calls : InFlight(q) /\ q \notin Waiting

\* C7: right after cleanup() has returned, with no search call in flight since
\* it was called, no browser and no session is open, the registry is empty,
\* activePages is 0 and no response is stored.
C7_CleanupClosesAll ==
  cleanupSucc >= 1 /\ cleanupQuiet =>
    /\ \A b \in Calls : browserState[b] # "open"
    /\ \A c \in Calls : ctxState[c] # "open"
    /\ contexts = <<>>
    /\ activePages = 0
    /\ result = NULL

NothingCreated ==
  /\ \A b \in Calls : browserState[b] = "none"
  /\ \A c \in Calls : ctxState[c] = "none"
  /\ result = NULL

CleanupReturnStep == CleanupStep /\ pcCleanup' = "idle"

CleanState == browser = NULL /\ contexts = <<>> /\ activePages = 0 /\ result = NULL

C9_DisconnectInvalidates ==
  /\ [](/\ browser # NULL => browserState[browser] = "open"
        /\ \A c \in MapValues(contexts) :
             ctxState[c] = "open" /\ browserState[lbrowser[c]] = "open")
  /\ [][/\ (\E b \in Calls : browserState[b] = "open" /\ browserState'[b] = "closed")
             => browser' = NULL /\ contexts' = <<>>
        /\ \A p \in Calls :
             /\ pc[p] \in {"idle", "waitSlot"} /\ pc'[p] = "openingPage"
                  => browserState'[lbrowser'[lctx'[p]]] = "open"
             /\ pc[p] \in {"idle", "waitSlot"} /\ pc'[p] = "creatingCtx"
                  => browserState'[lbrowser'[p]] = "open"]_vars

\* after the browser of call 1 disconnected with its session, call 2, of the
\* same uid, launched a new browser and registered a new session
C9_Witness ==
  /\ browserState[1] = "closed" /\ ctxState[1] = "closed"
  /\ uid[2] = uid[1]
  /\ browser = 2 /\ browserState[2] = "open"
  /\ MapGet(contexts, uid[2]) = 2 /\ ctxState[2] = "open"

C12_StoredIsLastCompleted ==
  [][/\ \A p \in Calls : pc[p] # "done" /\ pc'[p] = "done" => result' = p
     /\ \A p \in Calls : pc[p] # "failed" /\ pc'[p] = "failed" => result' = result
     /\ result' # result =>
          \/ \E p \in Calls : pc[p] # "done" /\ pc'[p] = "done" /\ result' = p
          \/ CleanupReturnStep /\ result' = NULL]_vars

\* two overlapping calls returned, the one made first last; then the other call's
\* response was replaced
C12_Witness ==
  /\ pc[1] = "done" /\ pc[2] = "done"
  /\ result = 1
  /\ cleanupSucc = 0 /\ pcCleanup = "idle"

\* C19: a step in which the session registered for a uid closes leaves the
\* registry without an entry for that uid; a call that finds an entry takes an
\* open session, and a call that finds none registers a session of its own that
\* did not exist before.
C19_ClosedSessionReplaced ==
  [][/\ \A c \in Calls :
          ctxState[c] = "open" /\ ctxState'[c] = "closed" /\ MapGet(contexts, uid[c]) = c
            => ~MapHas(contexts', uid[c])
     /\ \A p \in Calls :
          /\ pc[p] \in {"idle", "waitSlot"} /\ pc'[p] \notin {"idle", "waitSlot"} =>
               IF MapHas(contexts, uid'[p])
                 THEN /\ pc'[p] = "openingPage"
                      /\ lctx'[p] = MapGet(contexts, uid'[p])
                      /\ ctxState'[lctx'[p]] = "open"
                 ELSE pc'[p] \in {"creatingCtx", "launching"}
          /\ pc[p] = "creatingCtx" /\ pc'[p] = "openingPage" =>
               /\ ctxState[p] = "none" /\ ctxState'[p] = "open"
               /\ lctx'[p] = p
               /\ MapGet(contexts', uid[p]) = p]_vars

\* with a ceiling of 1: the session of call 1 closed while its browser stayed
\* open, and call 2, of the same uid and admitted after call 1 had released its
\* slot, registered a session of its own on that browser
C19_Witness ==
  /\ maxConcurrentPages = 1 /\ pcCleanup = "idle"
  /\ browserState[1] = "open" /\ ctxState[1] = "closed"
  /\ uid[2] = uid[1] /\ lbrowser[2] = 1
  /\ ctxState[2] = "open" /\ MapGet(contexts, uid[2]) = 2

\* the calls that have taken a slot and not given it back
Holding == {p \in Calls : InFlight(p) /\ acquired[p] > released[p]}

\* C20: activePages is between 0 and maxConcurrentPages and is the number of
\* search calls that hold a slot, cleanup() being called at any time.
C20_ActivePagesCountsHolders ==
  /\ activePages \in 0..maxConcurrentPages
  /\ activePages = Cardinality(Holding)

\* C21: the close event of a session that is not the one registered for its uid
\* leaves the entry of the session that is registered for that uid in place.
C21_StaleCloseKeepsEntry ==
  [][\A c \in Calls :
       LET live == MapGet(contexts, uid[c]) IN
       ContextClose(c) /\ live # NULL /\ live # c => MapGet(contexts', uid[c]) = live]_vars

\* C22: the disconnected event of a browser that is not this.browser leaves
\* this.browser set and the sessions of that browser registered.
C22_StaleDisconnectKeepsHandle ==
  [][\A b \in Calls :
       Disconnect(b) /\ browser # NULL /\ browser # b =>
         /\ browser' = browser
         /\ \A c \in MapValues(contexts) :
              lbrowser[c] = browser => c \in MapValues(contexts')]_vars

----------------------------------------------------------------------------
(* The sequential caller: SpecFacade                                        *)

LastOptions == requestOptions(request[1].query, request[1].options)
\* a search has returned, and cleanup() has not been called since
Returned == okSince /\ request # <<>>

\* C11: after a search with max_results = n >= 1 has returned, formatJSON() returns
\* the first min(n, k) of the k results the extraction produced, in the same order.
C11_FormatJSONFirstN ==
  Returned /\ LastOptions.max_results >= 1 =>
    LET out == formatJSON(resultValue)
        n == LastOptions.max_results
    IN /\ Len(out) = Min(n, Len(results))
       /\ \A i \in 1..Len(out) : out[i] = results[i]

\* a search with max_results = 1 returned, the extraction having produced two
\* different results
C11_Witness ==
  /\ Returned /\ ~threw
  /\ LastOptions.max_results = 1
  /\ Len(results) = 2 /\ results[1] # results[2]
  /\ formatJSON(resultValue) = <<results[1]>>

\* C13: as long as no search has returned since construction or the last cleanup(),
\* formatContent() returns the empty string and formatJSON() the empty sequence,
\* also after searches that threw.
C13_EmptyBeforeSuccess ==
  ~okSince => formatContent(resultValue) = <<>> /\ formatJSON(resultValue) = <<>>

\* a search returned, cleanup() was called, and then a search threw
C13_Witness ==
  /\ ~okSince /\ threw /\ request # <<>>
  /\ formatContent(resultValue) = <<>>

\* C14: a search whose engine option is not 'baidu' in any letter case opens the
\* url, applies the parse function and stores the response that the same search
\* with engine 'bing' does.
C14_UnknownEngineIsBing ==
  Returned /\ toLowerCase(LastOptions.engine) # <<"b", "a", "i", "d", "u">> =>
    LET q == request[1].query
        o == request[1].options
        asBing == [k \in DOMAIN o \cup {"engine"} |->
                     IF k = "engine" THEN <<"b", "i", "n", "g">> ELSE o[k]]
    IN /\ request[1].url = Call(q, asBing).url
       /\ request[1].url = <<"https://www.bing.com/search?q=">> \o encodeURIComponent(q)
       /\ parser = "bing"
       /\ resultValue = <<Response(requestOptions(q, asBing), html)>>

\* a search with engine 'google' returned results
C14_Witness ==
  /\ Returned /\ ~threw
  /\ LastOptions.engine = <<"g", "o", "o", "g", "l", "e">>
  /\ parser = "bing"
  /\ formatJSON(resultValue) # <<>>

----------------------------------------------------------------------------
(* The parse functions: SpecParse                                           *)

HasText(s) == \E i \in DOMAIN s : ~IsSpace(s[i])

\* the words of s: its maximal runs of characters that are not white space
RECURSIVE Words(_)
Words(s) ==
  IF s = <<>> THEN <<>>
  ELSE IF IsSpace(s[1]) THEN Words(Tail(s))
  ELSE LET n == CHOOSE m \in 1..Len(s) :
                  /\ \A i \in 1..m : ~IsSpace(s[i])
                  /\ m = Len(s) \/ IsSpace(s[m + 1])
       IN <<SubSeq(s, 1, n)>> \o Words(SubSeq(s, n + 1, Len(s)))

\* the words ws with one space between neighbours
RECURSIVE Spaced(_)
Spaced(ws) ==
  IF ws = <<>> THEN <<>>
  ELSE IF Len(ws) = 1 THEN ws[1]
  ELSE ws[1] \o <<" ">> \o Spaced(Tail(ws))

RECURSIVE Flatten(_)
Flatten(ss) == IF ss = <<>> THEN <<>> ELSE Head(ss) \o Flatten(Tail(ss))

\* block i of the page is a result container of the parse function applied, with
\* a title, a url and, for Baidu, a content that are not empty
Emits(i) ==
  LET k == html[i] IN
  \/ /\ parser = "bing" /\ k.kind = "b_algo"
     /\ HasText(RunsText(k.anchor)) /\ k.href # <<>>
  \/ /\ parser = "baidu" /\ k.kind = "c-container"
     /\ HasText(RunsText(NonEmRuns(k.anchor))) /\ k.href # <<>> /\ HasText(k.span)
Emitting == {i \in DOMAIN html : Emits(i)}
\* the place in results of the candidate of block i
Rank(i) == Cardinality({j \in Emitting : j <= i})

\* C15 as stated: the content of a Bing candidate is the text of the first tier,
\* in the order (a), (b), (c), whose text is not empty.
C15_FallbackOnEmptyText ==
  parser = "bing" =>
    \A i \in Emitting :
      LET k == html[i]
          ta == IF k.a.present THEN NodeContent(k.a) ELSE <<>>
          tb == IF k.b.present THEN NodeContent(k.b) ELSE <<>>
          tc == Spaced(Flatten([j \in DOMAIN k.items |-> Words(ItemText(k.items[j]))]))
      IN results[Rank(i)].content = IF ta # <<>> THEN ta ELSE IF tb # <<>> THEN tb ELSE tc

\* C16: the content of a Bing candidate whose block has the tier (a) node is the
\* words of that node's text, without its timestamp, one space apart, whatever the
\* tiers (b) and (c) hold; for a block with list items only it is the words of the
\* items in document order, one space apart, an item giving its title attribute
\* when it has one and its text otherwise.
C16_TierAWinsItemsJoined ==
  parser = "bing" =>
    \A i \in Emitting :
      LET k == html[i]
          content == results[Rank(i)].content
          given == [j \in DOMAIN k.items |->
                      IF k.items[j].title # <<>> THEN k.items[j].title ELSE k.items[j].text]
      IN /\ k.a.present => content = Spaced(Words(k.a.text))
         /\ ~k.a.present /\ ~k.b.present /\ k.items # <<>> =>
              content = Spaced(Flatten([j \in DOMAIN given |-> Words(given[j])]))

\* a block with list items only, one with a title attribute and one without
C16_Witness ==
  /\ parser = "bing" /\ Len(html) = 1 /\ Len(results) = 1
  /\ ~html[1].a.present /\ ~html[1].b.present
  /\ html[1].items = <<Item(<<"t", " ", " ", "s">>, <<"v">>), Item(<<>>, <<"w">>)>>
  /\ results[1].content = <<"t", " ", "s", " ", "w">>

\* C17: the results are the candidates of the blocks that are result containers
\* with a title and a url, and for Baidu a content, that are not empty, in page
\* order; each is what its block alone gives, a Bing candidate without any content
\* node having the empty content; a page without such a block gives no results.
C17_EmissionRules ==
  parser # "none" =>
    /\ Len(results) = Cardinality(Emitting)
    /\ \A i \in Emitting :
         LET k == html[i]
             r == results[Rank(i)]
         IN /\ r.url = k.href
            /\ HasText(r.title)
            /\ parser = "baidu" => HasText(r.content)
            /\ parser = "bing" /\ ~k.a.present /\ ~k.b.present /\ k.items = <<>>
                 => r.content = <<>>
            /\ parser = "bing" => <<r>> = parseBingSearchResults(<<k>>)
            /\ parser = "baidu" => <<r>> = parseBaiduSearchResults(<<k>>)

\* a Bing page of two result containers: the first has no url, the second has a
\* title and a url and no content
C17_Witness ==
  /\ parser = "bing" /\ Len(html) = 2
  /\ html[1].kind = "b_algo" /\ html[1].href = <<>>
  /\ html[2].kind = "b_algo"
  /\ Len(results) = 1 /\ results[1].content = <<>>

----------------------------------------------------------------------------
(* The admission gate: SpecGate                                             *)

PollerAdmitted == \A c \in GateCallers : (gpc[c] = "polling") ~> (gpc[c] = "holding")

====
